---- MODULE Spec2Model ----
(***************************************************************************)
(* The pay-to-play lottery contract of src/contract/src/contract.ts as a   *)
(* state machine: the persisted fields of Contract, the receipts the host  *)
(* holds for scheduled payouts, and one action per entry point.            *)
(*                                                                         *)
(* Amounts are yoctoNEAR values (u128 on the host, bigint in the           *)
(* contract).  They do not fit TLC's integers, so an amount is a sequence  *)
(* of limbs in base 2^15, least significant first, with no leading zero    *)
(* limb: <<>> is 0, <<1>> is 1, <<0, 1>> is 32768.                         *)
(***************************************************************************)
EXTENDS Integers, Sequences, FiniteSets, TLC

\* ------------------------------------------------------------------------
\* Arbitrary-precision naturals (bigint)
\* ------------------------------------------------------------------------

\* The base of the representation, and the bits of one limb.
Base == 2 ^ 15
LimbBits == CHOOSE k \in 1..30 : 2 ^ k = Base

RECURSIVE BigNorm(_)
\* Drops the zero limbs above the most significant one.
BigNorm(a) ==
    IF a = <<>> THEN <<>>
    ELSE IF a[Len(a)] = 0 THEN BigNorm(SubSeq(a, 1, Len(a) - 1))
    ELSE a

RECURSIVE BigFromNat(_)
\* BigInt(n) of a natural n that fits an integer of the model.
BigFromNat(n) ==
    IF n = 0 THEN <<>> ELSE <<n % Base>> \o BigFromNat(n \div Base)

RECURSIVE BigAddC(_, _, _)
\* a + b + carry, limb by limb.
BigAddC(a, b, c) ==
    IF a = <<>> /\ b = <<>> THEN BigFromNat(c)
    ELSE LET x == IF a = <<>> THEN 0 ELSE Head(a)
             y == IF b = <<>> THEN 0 ELSE Head(b)
             s == x + y + c
         IN  <<s % Base>> \o BigAddC(IF a = <<>> THEN <<>> ELSE Tail(a),
                                     IF b = <<>> THEN <<>> ELSE Tail(b),
                                     s \div Base)

\* bigint a + b
BigAdd(a, b) == BigAddC(a, b, 0)

RECURSIVE BigMulC(_, _, _)
\* a * k + carry, limb by limb, for a natural k < 2^16.
BigMulC(a, k, c) ==
    IF a = <<>> THEN BigFromNat(c)
    ELSE LET p == Head(a) * k + c
         IN  <<p % Base>> \o BigMulC(Tail(a), k, p \div Base)

\* bigint a * BigInt(k) for a natural k < 2^16
BigMulNat(a, k) == BigNorm(BigMulC(a, k, 0))

RECURSIVE BigLessFrom(_, _, _)
\* a < b for two amounts of the same length, compared from limb i downwards.
BigLessFrom(a, b, i) ==
    IF i = 0 THEN FALSE
    ELSE IF a[i] # b[i] THEN a[i] < b[i]
    ELSE BigLessFrom(a, b, i - 1)

\* bigint a < b
BigLess(a, b) ==
    IF Len(a) # Len(b) THEN Len(a) < Len(b) ELSE BigLessFrom(a, b, Len(a))

\* bigint a >= b
BigGeq(a, b) == ~BigLess(a, b)

\* bigint a <= b
BigLeq(a, b) == ~BigLess(b, a)

\* Number of bits of a natural n < Base (0 for 0).
BitLenNat(n) == Cardinality({k \in 0..(LimbBits - 1) : 2 ^ k <= n})

\* Number of bits of the amount a (0 for 0).
BigBitLen(a) ==
    IF a = <<>> THEN 0 ELSE LimbBits * (Len(a) - 1) + BitLenNat(a[Len(a)])

\* Bit i of the amount a, bit 0 being the least significant.
BigBit(a, i) ==
    IF i \div LimbBits + 1 > Len(a) THEN 0
    ELSE (a[i \div LimbBits + 1] \div (2 ^ (i % LimbBits))) % 2

\* 2^e as an amount.
BigPow2(e) ==
    [j \in 1..(e \div LimbBits + 1) |->
        IF j = e \div LimbBits + 1 THEN 2 ^ (e % LimbBits) ELSE 0] \o <<>>

\* The amount a with its e lowest bits cleared.
BigClearLow(a, e) ==
    [j \in 1..Len(a) |->
        IF j < e \div LimbBits + 1 THEN 0
        ELSE IF j = e \div LimbBits + 1
             THEN (a[j] \div (2 ^ (e % LimbBits))) * (2 ^ (e % LimbBits))
             ELSE a[j]] \o <<>>

\* Width of the significand of an IEEE-754 double, the Number type.
SignificandBits == 53

\* BigInt(Number(a)): Number(a) is the double nearest to a, ties to the even
\* significand; BigInt of that integral double is exact.  Amounts are u128,
\* far below the largest double, so the result is always finite.
NumberRoundTrip(a) ==
    IF BigBitLen(a) <= SignificandBits THEN a
    ELSE LET shift == BigBitLen(a) - SignificandBits
             guard == BigBit(a, shift - 1)
             sticky == \E i \in 0..(shift - 2) : BigBit(a, i) = 1
             odd == BigBit(a, shift) = 1
             kept == BigClearLow(a, shift)
         IN  IF guard = 1 /\ (sticky \/ odd)
             THEN BigAdd(kept, BigPow2(shift))
             ELSE kept

\* ------------------------------------------------------------------------
\* Host environment
\* ------------------------------------------------------------------------

\* near.currentAccountId(): the account the contract is deployed on.
CurrentAccountId == "lottery.near"

\* The accounts that play (near.signerAccountId()).
Signers == {"alice.near", "bob.near"}

\* The accounts that call the other entry points directly
\* (near.predecessorAccountId()).
Accounts == {CurrentAccountId, "alice.near"}

\* The owner argument of the constructor.  No method but get_owner reads the
\* owner field, so one owner stands for all; it is an account other than the
\* contract's own, which keeps "the owner" and "the contract itself" apart.
Owners == {"alice.near"}

\* A field declared without an initializer and not yet assigned.
Undefined == "undefined"

\* ------------------------------------------------------------------------
\* utils: ONE_NEAR
\* ------------------------------------------------------------------------

\* One NEAR in yoctoNEAR, the unit of near.attachedDeposit(): 10^24.
ONE_NEAR ==
    BigMulNat(BigMulNat(BigMulNat(BigMulNat(BigMulNat(
        BigFromNat(10000), 10000), 10000), 10000), 10000), 10000)

\* near.attachedDeposit() of the calls the model makes: nothing, 1 NEAR and
\* 4 NEAR (the quadratic fees for one and for two players).
Deposits == {<<>>} \cup {BigMulNat(ONE_NEAR, k) : k \in {1, 4}}

\* ------------------------------------------------------------------------
\* fee-strategies: FeeStrategy
\* ------------------------------------------------------------------------

StrategyTypes == {"Linear", "Quadratic"}

\* The strategy of new FeeStrategy().
DefaultStrategy == "Quadratic"

\* new FeeStrategy(strategy) rejects an unrecognized variant.
ValidStrategy(strategy) == strategy \in StrategyTypes

\* FeeStrategy.calculate(enrolledCount, baseUnit)
Calculate(strategy, n, baseUnit) ==
    CASE strategy = "Linear" -> BigMulNat(baseUnit, n)
      [] strategy = "Quadratic" -> BigMulNat(baseUnit, n * n)

\* ------------------------------------------------------------------------
\* lottery: Lottery
\* ------------------------------------------------------------------------

\* A chance, and the randomness of one play, is a rational <<num, den>>.
\* The chances configure is called with: 0 and 3/2 are out of range.
Chances == {<<0, 1>>, <<1, 2>>, <<1, 1>>, <<3, 2>>}

\* The randomness the host supplies to one play: a draw from [0, 1).
Rolls == {<<1, 4>>, <<3, 4>>}

\* Lottery.configure(chance) accepts a chance in (0, 1].
ValidChance(chance) == chance[1] > 0 /\ chance[1] <= chance[2]

\* Lottery.play(): one draw, a win with probability chance.
LotteryPlay(chance, roll) == roll[1] * chance[2] < chance[1] * roll[2]

\* ------------------------------------------------------------------------
\* Contract state
\* ------------------------------------------------------------------------

VARIABLES
    owner,       \* private owner: string
    winner,      \* private winner: string
    lastPlayed,  \* private lastPlayed: string
    active,      \* private active: boolean
    pot,         \* private pot: bigint
    lottery,     \* private lottery: Lottery (its chance)
    feeStrategy, \* private feeStrategy: FeeStrategy (its strategy type)
    players,     \* private players: UnorderedSet
    promises,    \* receipts the host holds: a transfer, then on_payout_complete
    call,        \* the last call the host made, and how it ended
    epoch        \* history of the epoch: who played, what was added and scheduled

fields == <<owner, winner, lastPlayed, active, pot, lottery, feeStrategy, players>>
vars == <<owner, winner, lastPlayed, active, pot, lottery, feeStrategy, players,
          promises, call, epoch>>

\* Bounds of the model: the pot stops growing past PotLimit, and the host
\* holds at most MaxPending unconfirmed payouts.
MaxPotNear == 5
PotLimit == BigMulNat(ONE_NEAR, MaxPotNear)
MaxPending == 2

NoCall ==
    [op |-> "new", caller |-> CurrentAccountId, attached |-> <<>>,
     result |-> "ok", returning |-> FALSE, required |-> <<>>,
     won |-> FALSE, transfer |-> "none"]

\* The record of a call that ended in an assert failure: the host drops
\* every write of a call that panics.
Failed(op, caller, attached, error) ==
    [NoCall EXCEPT !.op = op, !.caller = caller, !.attached = attached,
                   !.result = error]

\* The record of a call that returned.
Returned(op, caller, attached) ==
    [NoCall EXCEPT !.op = op, !.caller = caller, !.attached = attached]

\* The history of an epoch that has just begun: the identities whose play
\* returned, the sum of the amounts increasePot() added, and the sum of the
\* amounts of the transfers play() scheduled.
NewEpoch == [accepted |-> {}, added |-> <<>>, scheduled |-> <<>>]

\* Field initializers and the constructor; the default lottery chance is
\* any chance configure accepts.
Init ==
    /\ owner \in Owners
    /\ winner = Undefined
    /\ lastPlayed = Undefined
    /\ active = TRUE
    /\ pot = ONE_NEAR
    /\ lottery \in {c \in Chances : ValidChance(c)}
    /\ feeStrategy = DefaultStrategy
    /\ players = {}
    /\ promises = <<>>
    /\ call = NoCall
    /\ epoch = NewEpoch

\* ------------------------------------------------------------------------
\* Private methods
\* ------------------------------------------------------------------------

\* fee() computed from the enrollment the caller's own entry would give.
feeCountsCaller == Calculate(feeStrategy, Cardinality(players) + 1, ONE_NEAR)

\* private fee(): bigint
fee == Calculate(feeStrategy, Cardinality(players), ONE_NEAR)

\* private increasePot(): the pot it assigns
increasePot(attached) == BigAdd(pot, NumberRoundTrip(attached))

\* assertSelf() comparing the predecessor with the owner field.
assertOwner(predecessor) == predecessor = owner

\* private assertSelf(): the condition it asserts
assertSelf(predecessor) == predecessor = CurrentAccountId

\* ------------------------------------------------------------------------
\* Public CHANGE methods
\* ------------------------------------------------------------------------

\* play() without its assert on this.active.
PlayCheckFeeOnly(signer, attached) ==
    IF signer \in players /\ BigLess(NumberRoundTrip(attached), fee)
    THEN "InsufficientFee"
    ELSE "ok"

\* play() refusing to run while a payout awaits its confirmation.
PlayCheckPendingCloses(signer, attached) ==
    IF ~active \/ promises # <<>> THEN "GameInactive"
    ELSE IF signer \in players /\ BigLess(NumberRoundTrip(attached), fee)
         THEN "InsufficientFee"
         ELSE "ok"

\* The failure of play's asserts, "ok" when both pass.
PlayCheck(signer, attached) ==
    IF ~active THEN "GameInactive"
    ELSE IF signer \in players /\ BigLess(NumberRoundTrip(attached), fee)
         THEN "InsufficientFee"
         ELSE "ok"

\* play() calling increasePot() on a first play too.
PotAfterPlayAlwaysPaid(signer, attached) == increasePot(attached)

\* The pot after the enrollment branch of play(): only a returning player's
\* play calls increasePot().
PotAfterPlay(signer, attached) ==
    IF signer \in players THEN increasePot(attached) ELSE pot

\* play() without players.set(signer).
EnrollNobody(signer) == players

\* players after the enrollment branch of play(): players.set(signer) on a
\* first play, the same set on a later one.
Enroll(signer) == players \cup {signer}

\* play() assigning this.lastPlayed in the losing branch only.
LastPlayedByLoser(signer, won) == IF won THEN lastPlayed ELSE signer

\* this.lastPlayed after play(): assigned before the draw, win or lose.
LastPlayedAfterPlay(signer, won) == signer

\* play() scheduling the transfer of the pot it read on entry.
PayoutOfOldPot(receiver, potAfter) ==
    [receiver |-> receiver, amount |-> pot, callback |-> CurrentAccountId]

\* The receipt a winning play() schedules: a transfer of this.pot to
\* this.winner, then on_payout_complete on near.currentAccountId().
Payout(receiver, potAfter) ==
    [receiver |-> receiver, amount |-> potAfter, callback |-> CurrentAccountId]

\* @call play()
play(signer, attached, roll) ==
    LET check == PlayCheck(signer, attached)
        returning == signer \in players
        won == LotteryPlay(lottery, roll)
        potAfter == PotAfterPlay(signer, attached)
        winnerAfter == IF won THEN signer ELSE winner
        scheduled == won /\ winnerAfter # ""
    IN  IF check # "ok"
        THEN /\ call' = [Failed("play", signer, attached, check) EXCEPT
                            !.returning = active /\ returning,
                            !.required = IF active /\ returning THEN fee ELSE <<>>]
             /\ UNCHANGED <<fields, promises, epoch>>
        ELSE /\ BigLeq(potAfter, PotLimit)
             /\ scheduled => Len(promises) < MaxPending
             /\ players' = Enroll(signer)
             /\ pot' = potAfter
             /\ lastPlayed' = LastPlayedAfterPlay(signer, won)
             /\ winner' = winnerAfter
             /\ promises' =
                    IF scheduled
                    THEN Append(promises, Payout(winnerAfter, potAfter))
                    ELSE promises
             /\ epoch' =
                    [accepted |-> epoch.accepted \cup {signer},
                     added |-> IF returning
                               THEN BigAdd(epoch.added, NumberRoundTrip(attached))
                               ELSE epoch.added,
                     scheduled |-> IF scheduled
                                   THEN BigAdd(epoch.scheduled, potAfter)
                                   ELSE epoch.scheduled]
             /\ call' = [Returned("play", signer, attached) EXCEPT
                            !.returning = returning,
                            !.required = IF returning THEN fee ELSE <<>>,
                            !.won = won]
             /\ UNCHANGED <<owner, active, lottery, feeStrategy>>

\* @call configure_lottery({ chance })
configure_lottery(predecessor, chance) ==
    IF ~assertSelf(predecessor)
    THEN /\ call' = Failed("configure_lottery", predecessor, <<>>, "Unauthorized")
         /\ UNCHANGED <<fields, promises, epoch>>
    ELSE IF ~ValidChance(chance)
    THEN /\ call' = Failed("configure_lottery", predecessor, <<>>, "InvalidConfiguration")
         /\ UNCHANGED <<fields, promises, epoch>>
    ELSE /\ lottery' = chance
         /\ call' = Returned("configure_lottery", predecessor, <<>>)
         /\ UNCHANGED <<owner, winner, lastPlayed, active, pot, feeStrategy, players,
                        promises, epoch>>

\* @call configure_fee({ strategy })
configure_fee(predecessor, strategy) ==
    IF ~assertSelf(predecessor)
    THEN /\ call' = Failed("configure_fee", predecessor, <<>>, "Unauthorized")
         /\ UNCHANGED <<fields, promises, epoch>>
    ELSE IF ~ValidStrategy(strategy)
    THEN /\ call' = Failed("configure_fee", predecessor, <<>>, "InvalidConfiguration")
         /\ UNCHANGED <<fields, promises, epoch>>
    ELSE /\ feeStrategy' = strategy
         /\ call' = Returned("configure_fee", predecessor, <<>>)
         /\ UNCHANGED <<owner, winner, lastPlayed, active, pot, lottery, players,
                        promises, epoch>>

\* reset() without its assignment to this.winner.
resetKeepsWinner(predecessor) ==
    IF ~assertSelf(predecessor)
    THEN /\ call' = Failed("reset", predecessor, <<>>, "Unauthorized")
         /\ UNCHANGED <<fields, promises, epoch>>
    ELSE /\ players' = {}
         /\ lastPlayed' = ""
         /\ pot' = ONE_NEAR
         /\ active' = TRUE
         /\ call' = Returned("reset", predecessor, <<>>)
         /\ epoch' = NewEpoch
         /\ UNCHANGED <<owner, winner, lottery, feeStrategy, promises>>

\* reset() assigning false to this.active.
resetDeactivates(predecessor) ==
    IF ~assertSelf(predecessor)
    THEN /\ call' = Failed("reset", predecessor, <<>>, "Unauthorized")
         /\ UNCHANGED <<fields, promises, epoch>>
    ELSE /\ players' = {}
         /\ winner' = ""
         /\ lastPlayed' = ""
         /\ pot' = ONE_NEAR
         /\ active' = FALSE
         /\ call' = Returned("reset", predecessor, <<>>)
         /\ epoch' = NewEpoch
         /\ UNCHANGED <<owner, lottery, feeStrategy, promises>>

\* @call reset()
reset(predecessor) ==
    IF ~assertSelf(predecessor)
    THEN /\ call' = Failed("reset", predecessor, <<>>, "Unauthorized")
         /\ UNCHANGED <<fields, promises, epoch>>
    ELSE /\ players' = {}
         /\ winner' = ""
         /\ lastPlayed' = ""
         /\ pot' = ONE_NEAR
         /\ active' = TRUE
         /\ call' = Returned("reset", predecessor, <<>>)
         /\ epoch' = NewEpoch
         /\ UNCHANGED <<owner, lottery, feeStrategy, promises>>

\* on_payout_complete() without its assertSelf().
PayoutCompleteUnchecked(predecessor, done) ==
    /\ active' = FALSE
    /\ call' = done
    /\ UNCHANGED <<owner, winner, lastPlayed, pot, lottery, feeStrategy, players>>

\* on_payout_complete() emptying the pot it has paid out.
PayoutCompleteDrains(predecessor, done) ==
    IF ~assertSelf(predecessor)
    THEN /\ call' = [done EXCEPT !.result = "Unauthorized"]
         /\ UNCHANGED fields
    ELSE /\ active' = FALSE
         /\ pot' = <<>>
         /\ call' = done
         /\ UNCHANGED <<owner, winner, lastPlayed, lottery, feeStrategy, players>>

\* on_payout_complete() logging "game over." without closing the game.
PayoutCompleteKeepsActive(predecessor, done) ==
    IF ~assertSelf(predecessor)
    THEN /\ call' = [done EXCEPT !.result = "Unauthorized"]
         /\ UNCHANGED fields
    ELSE /\ call' = done
         /\ UNCHANGED fields

\* on_payout_complete() reopening the epoch when the transfer failed.
PayoutCompleteCompensates(predecessor, done) ==
    IF ~assertSelf(predecessor)
    THEN /\ call' = [done EXCEPT !.result = "Unauthorized"]
         /\ UNCHANGED fields
    ELSE /\ active' = (done.transfer = "failure")
         /\ winner' = IF done.transfer = "failure" THEN "" ELSE winner
         /\ call' = done
         /\ UNCHANGED <<owner, lastPlayed, pot, lottery, feeStrategy, players>>

\* The body of on_payout_complete, for a call whose record is done.
PayoutComplete(predecessor, done) ==
    IF ~assertSelf(predecessor)
    THEN /\ call' = [done EXCEPT !.result = "Unauthorized"]
         /\ UNCHANGED fields
    ELSE /\ active' = FALSE
         /\ call' = done
         /\ UNCHANGED <<owner, winner, lastPlayed, pot, lottery, feeStrategy, players>>

\* @call on_payout_complete(), called directly by an account
on_payout_complete(predecessor) ==
    /\ PayoutComplete(predecessor, Returned("on_payout_complete", predecessor, <<>>))
    /\ UNCHANGED <<promises, epoch>>

\* The host settles the transfer of receipt i, which succeeds or fails, and
\* then runs the callback play chained to it on the account it is addressed
\* to, with the contract that scheduled it as the predecessor.
PayoutCallback(i, outcome) ==
    /\ i \in 1..Len(promises)
    /\ promises[i].callback = CurrentAccountId
    /\ promises' = SubSeq(promises, 1, i - 1) \o SubSeq(promises, i + 1, Len(promises))
    /\ PayoutComplete(CurrentAccountId,
           [Returned("on_payout_complete", CurrentAccountId, <<>>) EXCEPT
               !.transfer = outcome])
    /\ UNCHANGED epoch

Next ==
    \/ \E signer \in Signers, attached \in Deposits, roll \in Rolls :
           play(signer, attached, roll)
    \/ \E predecessor \in Accounts, chance \in Chances :
           configure_lottery(predecessor, chance)
    \/ \E predecessor \in Accounts, strategy \in StrategyTypes \cup {"Unknown"} :
           configure_fee(predecessor, strategy)
    \/ \E predecessor \in Accounts : reset(predecessor)
    \/ \E predecessor \in Accounts : on_payout_complete(predecessor)
    \/ \E i \in 1..MaxPending, outcome \in {"success", "failure"} :
           PayoutCallback(i, outcome)

Spec == Init /\ [][Next]_vars

\* The host runs the callback of every receipt it holds: a promise chain is
\* executed to its end, whether its transfer succeeds or fails.
Deliver == \E i \in 1..MaxPending, outcome \in {"success", "failure"} :
               PayoutCallback(i, outcome)

FairSpec == Spec /\ WF_vars(Deliver)

\* ------------------------------------------------------------------------
\* Properties
\* ------------------------------------------------------------------------

\* The call that made the step is a play that returned.
PlayedOk == call'.op = "play" /\ call'.result = "ok"

\* The call that made the step is an on_payout_complete that returned.
Confirmed == call'.op = "on_payout_complete" /\ call'.result = "ok"

\* The call that made the step is a reset that returned.
ResetOk == call'.op = "reset" /\ call'.result = "ok"

AdminOps == {"reset", "configure_lottery", "configure_fee"}

\* C1: after a winning play winner is the (non-empty) caller and active is
\* still true; active leaves true only in an on_payout_complete that
\* returned, which always leaves it false; while active is false every play
\* fails with GameInactive and changes nothing, and only a reset that
\* returned makes active true again.
C1_WinThenCloseUntilReset ==
    [][/\ (PlayedOk /\ call'.won) =>
            (winner' = call'.caller /\ winner' \in Signers /\ active')
       /\ (active /\ ~active') => Confirmed
       /\ Confirmed => ~active'
       /\ (~active /\ call'.op = "play") =>
            (call'.result = "GameInactive" /\ UNCHANGED <<fields, promises>>)
       /\ (~active /\ active') => ResetOk]_vars

\* A play was refused with GameInactive after a win was confirmed.
C1_Witness ==
    /\ ~active
    /\ winner \in Signers
    /\ call.op = "play"
    /\ call.result = "GameInactive"

\* C2: a play by an identity not in players, made while active, returns
\* whatever the attached value, adds the identity to players and leaves pot
\* unchanged.
C2_FirstPlayFree ==
    [][(call'.op = "play" /\ active /\ call'.caller \notin players) =>
          /\ call'.result = "ok"
          /\ players' = players \cup {call'.caller}
          /\ pot' = pot]_vars

\* A first play with 4 NEAR attached returned and the pot is still 1 NEAR.
C2_Witness ==
    /\ call.op = "play"
    /\ call.result = "ok"
    /\ ~call.returning
    /\ call.attached = BigMulNat(ONE_NEAR, 4)
    /\ call.caller \in players
    /\ pot = ONE_NEAR

\* C3: a play by an identity in players, made while active, fails with
\* InsufficientFee exactly when the attached value is below fee() and returns
\* otherwise; a play that fails changes no field and schedules no payout.
C3_FeeGate ==
    [][/\ (call'.op = "play" /\ active /\ call'.caller \in players) =>
            /\ (call'.result = "InsufficientFee") <=> BigLess(call'.attached, fee)
            /\ (call'.result = "ok") <=> ~BigLess(call'.attached, fee)
       /\ (call'.op = "play" /\ call'.result # "ok") =>
            UNCHANGED <<fields, promises>>]_vars

\* C4: a returning player's play that returned increased pot by exactly the
\* attached value, and no other step increases pot.
C4_PotGrowsByAttached ==
    [][/\ (PlayedOk /\ call'.returning) => pot' = BigAdd(pot, call'.attached)
       /\ BigLess(pot, pot') => (PlayedOk /\ call'.returning)]_vars

RECURSIVE TimesByAdding(_, _)
\* a added up k times.
TimesByAdding(a, k) ==
    IF k = 0 THEN <<>> ELSE BigAdd(a, TimesByAdding(a, k - 1))

\* C5: under the quadratic strategy fee() is ONE_NEAR times the square of
\* the number of players (0 with no player, 1 NEAR with one, 4 NEAR with
\* two), and that is the fee a returning player's play was held to.
C5_QuadraticFee ==
    feeStrategy = "Quadratic" =>
        /\ fee = TimesByAdding(ONE_NEAR, Cardinality(players) * Cardinality(players))
        /\ players = {} => fee = <<>>
        /\ Cardinality(players) = 1 => fee = ONE_NEAR
        /\ Cardinality(players) = 2 => fee = BigMulNat(ONE_NEAR, 4)
        /\ (call.op = "play" /\ call.returning) => call.required = fee

\* With both players enrolled a returning play was held to 4 NEAR.
C5_Witness ==
    /\ feeStrategy = "Quadratic"
    /\ players = Signers
    /\ call.op = "play"
    /\ call.returning
    /\ call.required = BigMulNat(ONE_NEAR, 4)

\* C6: a reset that returned leaves players, winner and lastPlayed empty,
\* pot at ONE_NEAR and active true, and changes none of owner, feeStrategy
\* and lottery.
C6_ResetEffect ==
    [][ResetOk =>
          /\ players' = {}
          /\ winner' = ""
          /\ lastPlayed' = ""
          /\ pot' = ONE_NEAR
          /\ active' = TRUE
          /\ UNCHANGED <<owner, feeStrategy, lottery>>]_vars

\* A reset returned in a closed game whose fee strategy had been configured
\* away from the default.
C6_Witness ==
    /\ call.op = "reset"
    /\ call.result = "ok"
    /\ feeStrategy # DefaultStrategy
    /\ players = {}
    /\ winner = ""
    /\ promises # <<>>

\* C7 as claimed: an admin call fails with Unauthorized exactly when its
\* caller is not owner.
C7_OwnerOnly ==
    call.op \in AdminOps =>
        ((call.result = "Unauthorized") <=> (call.caller # owner))

\* C7 as amended: an admin call fails with Unauthorized exactly when its
\* caller is not the contract's own account, whoever owner is, and then
\* changes nothing.
C7_SelfOnly ==
    [][call'.op \in AdminOps =>
          /\ (call'.result = "Unauthorized") <=> (call'.caller # CurrentAccountId)
          /\ (call'.result = "Unauthorized") => UNCHANGED <<fields, promises>>
          /\ (call'.result = "ok") => call'.caller = CurrentAccountId]_vars

\* The owner's own reset was refused.
C7_Witness ==
    /\ call.op = "reset"
    /\ call.caller = owner
    /\ call.result = "Unauthorized"

\* C8: on_payout_complete called by any account but the contract's own fails
\* with Unauthorized and changes nothing.
C8_CallbackSelfOnly ==
    [][(call'.op = "on_payout_complete" /\ call'.caller # CurrentAccountId) =>
          /\ call'.result = "Unauthorized"
          /\ UNCHANGED <<fields, promises>>]_vars

\* With a payout pending, another account's on_payout_complete was refused
\* and the game is still active.
C8_Witness ==
    /\ call.op = "on_payout_complete"
    /\ call.caller # CurrentAccountId
    /\ call.result = "Unauthorized"
    /\ promises # <<>>
    /\ active

\* C9: every step that takes active from true to false is an
\* on_payout_complete by the contract's own account that returned; no play,
\* reset, configure_lottery or configure_fee makes active false.
C9_SolePathToInactive ==
    [][/\ (active /\ ~active') => (Confirmed /\ call'.caller = CurrentAccountId)
       /\ call'.op \in AdminOps \cup {"play"} => (active' \/ ~active)]_vars

\* The host's callback has just closed the game.
C9_Witness ==
    /\ ~active
    /\ call.op = "on_payout_complete"
    /\ call.result = "ok"
    /\ call.transfer # "none"

\* C10: pot is never below ONE_NEAR; only a reset that returned decreases
\* it, a win and its confirmation included, and such a reset leaves it at
\* exactly ONE_NEAR.
C10_PotFloor ==
    /\ []BigGeq(pot, ONE_NEAR)
    /\ [][/\ BigLess(pot', pot) => ResetOk
          /\ ResetOk => pot' = ONE_NEAR]_vars

\* A payout of more than 1 NEAR was confirmed and the pot still holds it.
C10_Witness ==
    /\ ~active
    /\ call.op = "on_payout_complete"
    /\ call.result = "ok"
    /\ BigLess(ONE_NEAR, pot)

\* C11 as claimed: a winning play assigns winner only if no winning play of
\* the same epoch has assigned it before.
C11_WinnerSetOnce ==
    [][(PlayedOk /\ call'.won) => winner \notin Signers]_vars

WinnerNamedOnlyWhenClosing ==
    /\ winner \in Signers => (~active \/ promises # <<>>)
    /\ epoch.scheduled = <<>> => winner \notin Signers

\* C13: a pending payout closes nothing: while active is true a play is
\* never refused with GameInactive, whatever the host still holds, and with
\* a payout pending a play that returns enrolls its caller and adds to pot
\* as ever, and one that wins overwrites winner and schedules another payout.
C13_PlaysRacePayout ==
    [][/\ (call'.op = "play" /\ active) => call'.result # "GameInactive"
       /\ (PlayedOk /\ call'.won) => active'
       /\ (PlayedOk /\ promises # <<>>) =>
            /\ call'.caller \in players'
            /\ pot' = PotAfterPlay(call'.caller, call'.attached)
            /\ call'.won =>
                 /\ winner' = call'.caller
                 /\ Len(promises') = Len(promises) + 1]_vars

\* With the first winner's payout unconfirmed, a second player has won:
\* winner is overwritten and two payouts are pending in an active game.
C13_Witness ==
    /\ active
    /\ Len(promises) = 2
    /\ promises[1].receiver # promises[2].receiver
    /\ winner = promises[2].receiver
    /\ epoch.accepted = Signers
    /\ call.op = "play"

\* C14: a play that returned and won scheduled exactly one receipt: a
\* transfer to its caller of the whole pot as that play left it, then
\* on_payout_complete on the contract's own account; a play that lost, and
\* a play that failed, scheduled nothing.
C14_OnePayoutPerWin ==
    [][call'.op = "play" =>
          IF call'.result = "ok" /\ call'.won
          THEN promises' = Append(promises,
                   [receiver |-> call'.caller, amount |-> pot',
                    callback |-> CurrentAccountId])
          ELSE promises' = promises]_vars

\* A returning player's paid play won: the scheduled amount holds the fee
\* that play added.
C14_Witness ==
    /\ call.op = "play"
    /\ call.won
    /\ call.returning
    /\ promises # <<>>
    /\ promises[Len(promises)].amount = pot
    /\ BigLess(ONE_NEAR, pot)

C16_ConfirmationOnlyCloses ==
    [][Confirmed =>
          /\ ~active'
          /\ UNCHANGED <<owner, winner, lastPlayed, pot, lottery, feeStrategy,
                         players>>
          /\ \A i \in 1..Len(promises') : \E j \in 1..Len(promises) :
                 promises'[i] = promises[j]
          /\ Len(promises') <= Len(promises)]_vars

\* The transfer failed and the callback closed the game all the same, the
\* winner and the pot kept.
C16_Witness ==
    /\ call.op = "on_payout_complete"
    /\ call.result = "ok"
    /\ call.transfer = "failure"
    /\ ~active
    /\ winner \in Signers
    /\ BigGeq(pot, ONE_NEAR)

\* C17: players is the set of identities with a play that returned since
\* the last reset (or since creation); a step that is not a reset removes
\* nobody from players, and a reset empties it.
C17_PlayersAreEpochPlayers ==
    /\ [](players = epoch.accepted)
    /\ [][/\ ~ResetOk => players \subseteq players'
          /\ ResetOk => players' = {}
          /\ PlayedOk => call'.caller \in players']_vars

\* After a reset only bob.near has played, while alice.near's payout of the
\* earlier epoch is still pending.
C17_Witness ==
    /\ players = {"bob.near"}
    /\ promises # <<>>
    /\ promises[1].receiver = "alice.near"
    /\ call.op = "play"
    /\ call.result = "ok"

\* C18: after a play that returned lastPlayed is its caller; lastPlayed
\* changes only in a play that returned or a reset that returned.
C18_LastPlayed ==
    [][/\ PlayedOk => lastPlayed' = call'.caller
       /\ lastPlayed' # lastPlayed => (PlayedOk \/ ResetOk)]_vars

\* A returning player's winning play, after another player's, is recorded.
C18_Witness ==
    /\ call.op = "play"
    /\ call.result = "ok"
    /\ call.won
    /\ call.returning
    /\ lastPlayed = call.caller
    /\ players = Signers

\* C19 as claimed: when the host's callback has closed the game, winner
\* names the account that won the epoch.
C19_ClosedByOwnWin ==
    (~active /\ call.op = "on_payout_complete" /\ call.transfer # "none") =>
        winner \in Signers

\* C20 as claimed: the transfers scheduled in an epoch add up to no more
\* than ONE_NEAR plus what the epoch added to pot.
C20_PayoutsWithinPot ==
    BigLeq(epoch.scheduled, BigAdd(ONE_NEAR, epoch.added))

====
